---- MODULE Spec2Model ----
(***************************************************************************)
(* Model of the Gemini chat programs of this repository:                   *)
(*   - LangChainGeminiBot   (langchain_gemini_chatbot.py): model selection, *)
(*     a one-node LangGraph with a MemorySaver checkpointer, the command    *)
(*     loop of start_chat;                                                  *)
(*   - GeminiRealTimeChat   (gemini_realtime_chat.py): model selection, a   *)
(*     windowed in-process conversation_history, the command loop.          *)
(* `program` says which of the two programs a behaviour is a run of.        *)
(* Message contents and returned texts are sequences of string tokens, so   *)
(* that an f-string is the concatenation of its parts.                      *)
(***************************************************************************)
EXTENDS Integers, Sequences, FiniteSets, TLC

VARIABLES
    program,               \* "bot" | "rt" | "window"
    pc,                    \* position in start_chat
    avail,                 \* how the backend answers the probe of each candidate
    idx,                   \* position of the for loop over models_to_try
    attempts,              \* number of probes (llm.invoke) sent per candidate
    llm,                   \* self.llm: 0 is None, else the candidate index
    selResult,             \* "pending" | "ok" | "failed" | "interrupted"
    diag,                  \* last diagnostic printed by the selection loop
    graph,                 \* self.graph: the edges of the compiled graph
    ckpt,                  \* the MemorySaver checkpoint of thread main_conversation
    conversation_history,  \* GeminiRealTimeChat.conversation_history
    conversation_count,    \* GeminiRealTimeChat.conversation_count
    lastOp,                \* the command the loop handled last
    response,              \* what the last turn gave back to its caller
    sent,                  \* the message list the last turn passed to the backend
    lastOut,               \* what the backend call of the last turn did
    stats,                 \* the last result of get_conversation_stats
    turns,                 \* number of turns processed (bounded)
    goodTurns,             \* successful turns since construction or the last reset
    allGood,               \* no other kind of turn since construction or the last reset
    windowIn,              \* the history a window enforcement was applied to
    resetAt,               \* value of turns at the last reset, -1 before any reset
    visited,               \* the nodes the last graph invocation went through
    inflight               \* a process_user_input call that has not returned yet

vars == <<program, pc, avail, idx, attempts, llm, selResult, diag, graph, ckpt,
          conversation_history, conversation_count, lastOp, response, sent,
          lastOut, stats, turns, goodTurns, allGood, windowIn, resetAt,
          visited, inflight>>

selVars == <<avail, idx, attempts, llm, selResult, diag>>

----------------------------------------------------------------------------
(* Bounds *)

MaxBotTurns == 4
MaxChatTurns == 12
MaxOthers == 30
MaxGraphSteps == 3

(* Program constants *)

NumLlmCandidates == 5
NumModelCandidates == 4
WindowLimit == 21
WindowKeep == 20
MaxRetries == 2

----------------------------------------------------------------------------
(* Backend behaviours *)

\* What a probe of a candidate can do: answer with non-empty content, answer
\* with empty content, or raise an error whose text names the failure.
ProbeOutcomes ==
    {"ok", "empty", "unavailable", "permission_denied", "not_found", "other"}

\* Raw error strings a backend call can raise during a turn.
Errors == {"err_quota_key_AIza", "err_deadline"}

NumCandidates(p) == IF p = "bot" THEN NumLlmCandidates ELSE NumModelCandidates

Candidates(p) == 1..NumCandidates(p)

----------------------------------------------------------------------------
(* Model selection: initialize_llm / initialize_model *)

\* A probe returns normally (possibly with empty content) or raises.
ProbeRaises(outcome) == outcome \notin {"ok", "empty"}

\* `if test_response and test_response.content`
ProbeCommitsAnyAnswer(outcome) == outcome \in {"ok", "empty"}

ProbeCommitsNoContentCheck(outcome) == ~ProbeRaises(outcome)

ProbeCommits(outcome) == outcome = "ok"

\* The if/elif chain of the except branch of initialize_llm; initialize_model
\* prints one message for every failure.
ClassifyError(p, outcome) ==
    IF p = "rt" THEN "connect_failed"
    ELSE IF outcome = "unavailable" THEN "service_unavailable"
    ELSE IF outcome = "permission_denied" THEN "permission_denied"
    ELSE IF outcome = "not_found" THEN "model_not_found"
    ELSE "connect_failed"

\* The loop moves to the next element of models_to_try after a probe that did
\* not commit: `continue` for an exception, falling off the loop body for an
\* empty answer.
NextCandidateRetryOnce(i) == IF attempts[i] < 1 THEN i ELSE i + 1

NextCandidateRetryUnavailable(i) ==
    IF avail[i] = "unavailable" /\ attempts[i] < MaxRetries THEN i ELSE i + 1

NextCandidateSkipsOne(i) == i + 2

NextCandidate(i) == i + 1

\* One iteration of `for model_name in models_to_try` for program p.
\* Where start_chat goes when initialize_llm / initialize_model returned
\* False: it prints the failure and returns.
AfterFailedSelectionGoesOn(p) == IF p = "bot" THEN "build" ELSE "seed"

AfterFailedSelection(p) == "exit"

Probe(p) ==
    /\ program = p
    /\ pc = "select"
    /\ selResult = "pending"
    /\ idx <= NumCandidates(p)
    /\ llm' = idx
    /\ attempts' = [attempts EXCEPT ![idx] = @ + 1]
    /\ IF ProbeCommits(avail[idx])
         THEN /\ selResult' = "ok"
              /\ pc' = IF p = "bot" THEN "build" ELSE "seed"
              /\ idx' = idx
              /\ diag' = "connected"
         ELSE /\ idx' = NextCandidate(idx)
              /\ diag' = IF ProbeRaises(avail[idx])
                           THEN ClassifyError(p, avail[idx])
                           ELSE diag
              /\ IF idx' > NumCandidates(p)
                   THEN selResult' = "failed" /\ pc' = AfterFailedSelection(p)
                   ELSE selResult' = "pending" /\ pc' = pc
    /\ UNCHANGED <<program, avail, graph, ckpt, conversation_history,
                   conversation_count, lastOp, response, sent, lastOut, stats,
                   turns, goodTurns, allGood, windowIn>>
    /\ UNCHANGED <<resetAt, visited, inflight>>

InitializeLlmProbe == Probe("bot")

InitializeModelProbe == Probe("rt")

\* `except KeyboardInterrupt: return False` of initialize_llm: the user
\* interrupts the probe of the current candidate.
InitializeLlmInterrupt ==
    /\ program = "bot"
    /\ pc = "select"
    /\ selResult = "pending"
    /\ idx <= NumLlmCandidates
    /\ llm' = idx
    /\ selResult' = "interrupted"
    /\ diag' = "user_interrupt"
    /\ pc' = "exit"
    /\ UNCHANGED <<program, avail, idx, attempts, graph, ckpt,
                   conversation_history, conversation_count, lastOp, response,
                   sent, lastOut, stats, turns, goodTurns, allGood, windowIn>>
    /\ UNCHANGED <<resetAt, visited, inflight>>

----------------------------------------------------------------------------
(* Initial values of the fields (__init__) *)

NoResponse == [kind |-> "none", text |-> <<>>]

NoOutcome == [kind |-> "none", err |-> ""]

NoStats == [conversation_count |-> 0, message_count |-> 0]

NoCheckpoint == [has |-> FALSE, messages |-> <<>>, conversation_count |-> 0]

NoInflight ==
    [active |-> FALSE, stale |-> FALSE, n |-> 0,
     state |-> [messages |-> <<>>, conversation_count |-> 0]]

FieldsInit ==
    /\ idx = 1
    /\ llm = 0
    /\ selResult = "pending"
    /\ diag = "none"
    /\ graph = {}
    /\ ckpt = NoCheckpoint
    /\ conversation_history = <<>>
    /\ conversation_count = 0
    /\ lastOp = "none"
    /\ response = NoResponse
    /\ sent = <<>>
    /\ lastOut = NoOutcome
    /\ stats = NoStats
    /\ turns = 0
    /\ goodTurns = 0
    /\ allGood = TRUE
    /\ resetAt = -1
    /\ visited = <<>>
    /\ inflight = NoInflight

\* Selection alone, for every way the backend can answer the probes.
SelectInit ==
    /\ program \in {"bot", "rt"}
    /\ pc = "select"
    /\ avail \in [Candidates(program) -> ProbeOutcomes]
    /\ attempts = [i \in Candidates(program) |-> 0]
    /\ windowIn = <<>>
    /\ FieldsInit

SelectNext ==
    \/ InitializeLlmProbe
    \/ InitializeModelProbe
    \/ InitializeLlmInterrupt

SpecSelect == SelectInit /\ [][SelectNext]_vars

\* The loop body is straight-line code around one bounded backend call, so
\* an iteration that can run does run.
SpecSelectFair == SelectInit /\ [][SelectNext]_vars /\ WF_vars(SelectNext)

----------------------------------------------------------------------------
(* Messages and texts *)

Msg(role, content) == [role |-> role, content |-> content]

\* What the user types in turn n, and the backend's non-empty answer to it.
UserText(n) == <<"user_text", ToString(n)>>

ReplyText(n) == <<"reply_to", ToString(n)>>

EmptyText == <<>>

\* SystemMessage of add_system_message
SystemPrompt == <<"SYSTEM_PROMPT_ASSISTANT">>

\* SystemMessage of create_prompt_template
BotSystemPrompt == <<"SYSTEM_PROMPT_LANGCHAIN_BOT">>

\* The fixed texts of chatbot_node and process_user_input
FallbackNode == <<"SORRY_TECHNICAL_PROBLEM_RETRY_OR_CHECK_NETWORK">>

FallbackNoReply == <<"SORRY_NO_VALID_REPLY_GENERATED">>

FallbackInput == <<"SORRY_PROCESSING_PROBLEM_RETRY_OR_CHECK_NETWORK">>

\* The texts of chat_with_gemini
NoValidReply == <<"SORRY_NO_VALID_REPLY_RECEIVED_RETRY">>

\* f"对话出错: {e}\n请检查网络连接或重试。"
ChatError(e) == <<"CHAT_ERROR: ", e, "CHECK_NETWORK_OR_RETRY">>

Returned(text) == [kind |-> "return", text |-> text]

Raised(e) == [kind |-> "raise", text |-> <<e>>]

\* What the backend call of turn n can do: answer with non-empty content,
\* answer with empty content, or raise.
TurnOutcomes(n) ==
    {[kind |-> "reply", content |-> ReplyText(n), err |-> ""],
     [kind |-> "reply", content |-> EmptyText, err |-> ""]}
    \cup {[kind |-> "raise", content |-> EmptyText, err |-> e] : e \in Errors}

OutcomeKind(out) ==
    IF out.kind = "raise" THEN "raise"
    ELSE IF out.content = EmptyText THEN "empty"
    ELSE "reply"

\* What the framework around the node can do in graph.invoke: run the graph,
\* or raise before or after the input has been written to the checkpoint.
GraphOutcomes == {"run", "raise_before_input", "raise_after_input"}

----------------------------------------------------------------------------
(* LangChainGeminiBot: the graph and its checkpoint *)

\* The edges added by build_graph and clear_memory
ChatGraphWithLoop ==
    {<<"START", "chatbot">>, <<"chatbot", "chatbot">>, <<"chatbot", "END">>}

ChatGraph == {<<"START", "chatbot">>, <<"chatbot", "END">>}

\* The add_messages reducer of ChatState.messages: new messages are appended.
AddMessagesOverwrite(left, right) == right

AddMessages(left, right) == left \o right

\* The state a graph invocation starts from: the input is written over the
\* checkpointed channels, messages through its reducer, conversation_count
\* (a plain int channel) by replacement.
ApplyInputFreshThread(ck, input) ==
    [messages |-> input.messages,
     conversation_count |-> input.conversation_count]

ApplyInput(ck, input) ==
    [messages |-> AddMessages(ck.messages, input.messages),
     conversation_count |-> input.conversation_count]

\* initial_state of process_user_input
InitialState(n) ==
    [messages |-> <<Msg("user", UserText(n))>>,
     conversation_count |-> 0]

\* The messages the chain of chatbot_node sends to the model
ChainInput(state) == <<Msg("system", BotSystemPrompt)>> \o state.messages

\* chatbot_node: the update it returns for a backend outcome
ChatbotNode(state, out) ==
    IF out.kind = "reply"
      THEN [messages |-> <<Msg("assistant", out.content)>>,
            conversation_count |-> state.conversation_count + 1]
      ELSE [messages |-> <<Msg("assistant", FallbackNode)>>,
            conversation_count |-> state.conversation_count]

\* The state after the node's update has been written
ApplyUpdate(state, upd) ==
    [messages |-> AddMessages(state.messages, upd.messages),
     conversation_count |-> upd.conversation_count]

GraphNodes == {"START", "chatbot", "END"}

Successors(g, n) == {m \in GraphNodes : <<n, m>> \in g}

\* The nodes an invocation of graph g enters from node n on, following the
\* edges until END, a node without successor, or the step limit.
RECURSIVE RunPath(_, _, _)
RunPath(g, n, fuel) ==
    IF n = "END" \/ fuel = 0 \/ Successors(g, n) = {}
      THEN <<n>>
      ELSE <<n>> \o RunPath(g, CHOOSE m \in Successors(g, n) : TRUE, fuel - 1)

GraphPath(g) == RunPath(g, "START", MaxGraphSteps)

\* The state after the nodes of a path have run, each on the state the
\* previous one left.
RECURSIVE RunNodes(_, _, _)
RunNodes(path, state, out) ==
    IF path = <<>> THEN state
    ELSE IF Head(path) = "chatbot"
      THEN RunNodes(Tail(path), ApplyUpdate(state, ChatbotNode(state, out)), out)
      ELSE RunNodes(Tail(path), state, out)

\* graph.invoke on the compiled graph START -> chatbot -> END
GraphInvoke(g, ck, input, out) ==
    RunNodes(GraphPath(g), ApplyInput(ck, input), out)

Saved(state) ==
    [has |-> TRUE, messages |-> state.messages,
     conversation_count |-> state.conversation_count]

AssistantContents(msgs) ==
    SelectSeq(msgs, LAMBDA m : m.role = "assistant")

\* Lines 300-305 of process_user_input
LastAiContent(msgs) ==
    LET ai == AssistantContents(msgs)
    IN  IF Len(ai) > 0 THEN ai[Len(ai)].content ELSE FallbackNoReply

\* The try/except of process_user_input around the graph invocation
ProcessUserInputNoCatch(r) == r

ProcessUserInputCatch(r) ==
    IF r.kind = "raise" THEN Returned(FallbackInput) ELSE r

\* get_conversation_stats
GetConversationStats(ck) ==
    IF ck.has
      THEN [conversation_count |-> ck.conversation_count,
            message_count |-> Len(ck.messages)]
      ELSE NoStats

IsGoodTurn(gout, out) ==
    gout = "run" /\ out.kind = "reply" /\ out.content # EmptyText

\* self.llm after a turn: chatbot_node and chat_with_gemini call the handle
\* and never assign it.
HandleDroppedOnError(h, out) == IF out.kind = "raise" THEN 0 ELSE h

HandleAfterTurn(h, out) == h

\* The checkpoint the graph reads after clear_memory: the graph is recompiled
\* over a new, empty MemorySaver.
ClearMemoryKeepsSaver(ck) == ck

ClearMemoryCheckpoint(ck) == NoCheckpoint

\* A call that is in flight when clear_memory assigns self.graph goes on
\* with the graph object it read, whose checkpointer is the MemorySaver that
\* clear_memory has just replaced.
InflightSharesSaver(active) == FALSE

InflightStaleAfterClear(active) == active

\* setup_api_key of either program: the key is in the environment or typed
\* in (True), or it is not provided (False).
SetupApiKey ==
    /\ pc = "setup"
    /\ \E ok \in BOOLEAN : pc' = IF ok THEN "select" ELSE "exit"
    /\ UNCHANGED <<program, graph, ckpt, conversation_history,
                   conversation_count, lastOp, response, sent, lastOut, stats,
                   turns, goodTurns, allGood, windowIn>>
    /\ UNCHANGED selVars
    /\ UNCHANGED <<resetAt, visited, inflight>>

\* build_graph
BuildGraph ==
    /\ program = "bot"
    /\ pc = "build"
    /\ \E ok \in BOOLEAN :
         IF ok THEN graph' = ChatGraph /\ pc' = "loop"
               ELSE graph' = graph /\ pc' = "exit"
    /\ UNCHANGED <<program, ckpt, conversation_history, conversation_count,
                   lastOp, response, sent, lastOut, stats, turns, goodTurns,
                   allGood, windowIn>>
    /\ UNCHANGED selVars
    /\ UNCHANGED <<resetAt, visited, inflight>>

\* A chat turn of start_chat: get_conversation_stats for the round number,
\* then process_user_input.
BotTurn ==
    /\ program = "bot"
    /\ pc = "loop"
    /\ turns < MaxBotTurns
    /\ \E gout \in GraphOutcomes, out \in TurnOutcomes(turns + 1) :
         LET input == InitialState(turns + 1)
             final == GraphInvoke(graph, ckpt, input, out)
             inner == IF gout = "run"
                        THEN Returned(LastAiContent(final.messages))
                        ELSE Raised("graph_error")
         IN  /\ ckpt' = CASE gout = "run" -> Saved(final)
                          [] gout = "raise_after_input" ->
                                Saved(ApplyInput(ckpt, input))
                          [] OTHER -> ckpt
             /\ response' = ProcessUserInputCatch(inner)
             /\ sent' = IF gout = "run"
                          THEN ChainInput(ApplyInput(ckpt, input))
                          ELSE <<>>
             /\ lastOut' = IF gout = "run"
                             THEN [kind |-> OutcomeKind(out), err |-> out.err]
                             ELSE [kind |-> "graph_raise", err |-> "graph_error"]
             /\ goodTurns' = IF IsGoodTurn(gout, out) THEN goodTurns + 1
                                                        ELSE goodTurns
             /\ allGood' = (allGood /\ IsGoodTurn(gout, out))
             /\ visited' = IF gout = "run" THEN GraphPath(graph) ELSE <<>>
             /\ llm' = IF gout = "run" THEN HandleAfterTurn(llm, out) ELSE llm
    /\ stats' = GetConversationStats(ckpt)
    /\ turns' = turns + 1
    /\ lastOp' = "turn"
    /\ UNCHANGED <<program, pc, graph, conversation_history,
                   conversation_count, windowIn>>
    /\ UNCHANGED <<avail, idx, attempts, selResult, diag>>
    /\ UNCHANGED <<resetAt, inflight>>

\* The clear command: clear_memory replaces the MemorySaver and recompiles
\* the graph over it, or fails and reports False.
BotClear ==
    /\ program = "bot"
    /\ pc = "loop"
    /\ \E ok \in BOOLEAN :
         IF ok
           THEN /\ ckpt' = ClearMemoryCheckpoint(ckpt)
                /\ graph' = ChatGraph
                /\ goodTurns' = 0
                /\ allGood' = TRUE
                /\ resetAt' = turns
                /\ inflight' =
                       [inflight EXCEPT
                          !.stale = @ \/ InflightStaleAfterClear(inflight.active)]
                /\ lastOp' = "clear"
           ELSE /\ UNCHANGED <<ckpt, graph, goodTurns, allGood, resetAt,
                               inflight>>
                /\ lastOp' = "clear_failed"
    /\ UNCHANGED <<program, pc, conversation_history, conversation_count,
                   response, sent, lastOut, stats, turns, windowIn>>
    /\ UNCHANGED selVars
    /\ UNCHANGED visited

\* The stats command
BotStats ==
    /\ program = "bot"
    /\ pc = "loop"
    /\ stats' = GetConversationStats(ckpt)
    /\ lastOp' = "stats"
    /\ UNCHANGED <<program, pc, graph, ckpt, conversation_history,
                   conversation_count, response, sent, lastOut, turns,
                   goodTurns, allGood, windowIn>>
    /\ UNCHANGED selVars
    /\ UNCHANGED <<resetAt, visited, inflight>>

\* The quit command: prints the stats and leaves the loop
BotQuit ==
    /\ program = "bot"
    /\ pc = "loop"
    /\ stats' = GetConversationStats(ckpt)
    /\ lastOp' = "quit"
    /\ pc' = "exit"
    /\ UNCHANGED <<program, graph, ckpt, conversation_history,
                   conversation_count, response, sent, lastOut, turns,
                   goodTurns, allGood, windowIn>>
    /\ UNCHANGED selVars
    /\ UNCHANGED <<resetAt, visited, inflight>>

\* The help command and the empty input of either loop: nothing but output
Help ==
    /\ pc = "loop"
    /\ lastOp' = "help"
    /\ UNCHANGED <<program, pc, graph, ckpt, conversation_history,
                   conversation_count, response, sent, lastOut, stats, turns,
                   goodTurns, allGood, windowIn>>
    /\ UNCHANGED selVars
    /\ UNCHANGED <<resetAt, visited, inflight>>

----------------------------------------------------------------------------
(* GeminiRealTimeChat *)

\* Lines 113-114 of chat_with_gemini:
\*   if len(h) > 21: h = [h[0]] + h[-20:]
EnforceWindowLast21(h) ==
    IF Len(h) > WindowLimit
      THEN SubSeq(h, Len(h) - WindowKeep, Len(h))
      ELSE h

EnforceWindowNoSystem(h) ==
    IF Len(h) > WindowLimit
      THEN SubSeq(h, Len(h) - WindowKeep + 1, Len(h))
      ELSE h

EnforceWindowNever(h) == h

EnforceWindow(h) ==
    IF Len(h) > WindowLimit
      THEN <<h[1]>> \o SubSeq(h, Len(h) - WindowKeep + 1, Len(h))
      ELSE h

\* The try/except of chat_with_gemini
ChatWithGeminiCatch(r) ==
    IF r.kind = "raise" THEN Returned(ChatError(r.text[1])) ELSE r

\* add_system_message, called once by start_chat before the loop
AddSystemMessage ==
    /\ program = "rt"
    /\ pc = "seed"
    /\ conversation_history' =
           Append(conversation_history, Msg("system", SystemPrompt))
    /\ pc' = "loop"
    /\ UNCHANGED <<program, graph, ckpt, conversation_count, lastOp, response,
                   sent, lastOut, stats, turns, goodTurns, allGood, windowIn>>
    /\ UNCHANGED selVars
    /\ UNCHANGED <<resetAt, visited, inflight>>

\* The history chat_with_gemini leaves when the backend raised or answered
\* empty: nothing is appended and nothing is removed after the window step.
HistoryRolledBack(h) == SubSeq(h, 1, Len(h) - 1)

HistoryAfterFailure(h) == h

\* A chat turn of start_chat: conversation_count += 1, then chat_with_gemini
ChatTurn ==
    /\ program = "rt"
    /\ pc = "loop"
    /\ turns < MaxChatTurns
    /\ conversation_count' = conversation_count + 1
    /\ \E out \in TurnOutcomes(turns + 1) :
         LET appended == Append(conversation_history,
                                Msg("user", UserText(turns + 1)))
             windowed == EnforceWindow(appended)
             good == out.kind = "reply" /\ out.content # EmptyText
             inner == IF out.kind = "raise" THEN Raised(out.err)
                      ELSE IF good THEN Returned(out.content)
                      ELSE Returned(NoValidReply)
         IN  /\ windowIn' = appended
             /\ sent' = windowed
             /\ conversation_history' =
                    IF good
                      THEN Append(windowed, Msg("assistant", out.content))
                      ELSE HistoryAfterFailure(windowed)
             /\ response' = ChatWithGeminiCatch(inner)
             /\ lastOut' = [kind |-> OutcomeKind(out), err |-> out.err]
             /\ goodTurns' = IF good THEN goodTurns + 1 ELSE goodTurns
             /\ allGood' = (allGood /\ good)
             /\ llm' = HandleAfterTurn(llm, out)
    /\ turns' = turns + 1
    /\ lastOp' = "turn"
    /\ UNCHANGED <<program, pc, graph, ckpt, stats>>
    /\ UNCHANGED <<avail, idx, attempts, selResult, diag>>
    /\ UNCHANGED <<resetAt, visited, inflight>>

\* The clear command of the realtime loop
ChatClear ==
    /\ program = "rt"
    /\ pc = "loop"
    /\ conversation_history' = Append(<<>>, Msg("system", SystemPrompt))
    /\ conversation_count' = 0
    /\ goodTurns' = 0
    /\ allGood' = TRUE
    /\ resetAt' = turns
    /\ lastOp' = "clear"
    /\ UNCHANGED <<program, pc, graph, ckpt, response, sent, lastOut, stats,
                   turns, windowIn>>
    /\ UNCHANGED selVars
    /\ UNCHANGED <<visited, inflight>>

\* The quit command of the realtime loop
ChatQuit ==
    /\ program = "rt"
    /\ pc = "loop"
    /\ lastOp' = "quit"
    /\ pc' = "exit"
    /\ UNCHANGED <<program, graph, ckpt, conversation_history,
                   conversation_count, response, sent, lastOut, stats, turns,
                   goodTurns, allGood, windowIn>>
    /\ UNCHANGED selVars
    /\ UNCHANGED <<resetAt, visited, inflight>>

----------------------------------------------------------------------------
(* The two programs *)

\* Backends of a session: the first k-1 candidates are unavailable and the
\* others answer, for no, one or every candidate unavailable.
SessionAvail(p) ==
    {[i \in Candidates(p) |-> IF i < k THEN "unavailable" ELSE "ok"] :
        k \in {1, 2, NumCandidates(p) + 1}}

Init ==
    /\ program \in {"bot", "rt"}
    /\ pc = "setup"
    /\ avail \in SessionAvail(program)
    /\ attempts = [i \in Candidates(program) |-> 0]
    /\ windowIn = <<>>
    /\ FieldsInit

Next ==
    \/ SetupApiKey
    \/ InitializeLlmProbe
    \/ InitializeLlmInterrupt
    \/ InitializeModelProbe
    \/ BuildGraph
    \/ BotTurn
    \/ BotClear
    \/ BotStats
    \/ BotQuit
    \/ Help
    \/ AddSystemMessage
    \/ ChatTurn
    \/ ChatClear
    \/ ChatQuit

Spec == Init /\ [][Next]_vars

----------------------------------------------------------------------------
(* LangChainGeminiBot called from two threads: one calls process_user_input, *)
(* the other clear_memory and get_conversation_stats.  The call is split at  *)
(* the backend call of chatbot_node, the one point where it waits.           *)

\* The bot after setup_api_key, a selection that committed the first
\* candidate, and build_graph.
ConcurrentInit ==
    /\ program = "bot"
    /\ pc = "loop"
    /\ avail = [i \in Candidates("bot") |-> "ok"]
    /\ attempts = [i \in Candidates("bot") |-> IF i = 1 THEN 1 ELSE 0]
    /\ idx = 1
    /\ llm = 1
    /\ selResult = "ok"
    /\ diag = "connected"
    /\ graph = ChatGraph
    /\ ckpt = NoCheckpoint
    /\ conversation_history = <<>>
    /\ conversation_count = 0
    /\ lastOp = "none"
    /\ response = NoResponse
    /\ sent = <<>>
    /\ lastOut = NoOutcome
    /\ stats = NoStats
    /\ turns = 0
    /\ goodTurns = 0
    /\ allGood = TRUE
    /\ windowIn = <<>>
    /\ resetAt = -1
    /\ visited = <<>>
    /\ inflight = NoInflight

\* process_user_input up to the backend call: self.graph is read, the
\* invocation loads the checkpoint of its MemorySaver, writes the input to
\* it and enters chatbot_node.
ProcessUserInputStart ==
    /\ program = "bot"
    /\ pc = "loop"
    /\ ~inflight.active
    /\ turns < MaxBotTurns
    /\ LET s0 == ApplyInput(ckpt, InitialState(turns + 1))
       IN  /\ inflight' = [active |-> TRUE, stale |-> FALSE,
                           n |-> turns + 1, state |-> s0]
           /\ ckpt' = Saved(s0)
    /\ turns' = turns + 1
    /\ lastOp' = "turn_started"
    /\ UNCHANGED <<program, pc, graph, conversation_history,
                   conversation_count, response, sent, lastOut, stats,
                   goodTurns, allGood, windowIn, resetAt, visited>>
    /\ UNCHANGED selVars

\* process_user_input from the backend's answer on: the node's update is
\* written to the MemorySaver of the graph the call started with, and the
\* last AI message is returned.
ProcessUserInputFinish ==
    /\ program = "bot"
    /\ inflight.active
    /\ \E out \in TurnOutcomes(inflight.n) :
         LET final == RunNodes(GraphPath(graph), inflight.state, out)
         IN  /\ ckpt' = IF inflight.stale THEN ckpt ELSE Saved(final)
             /\ response' = ProcessUserInputCatch(
                                Returned(LastAiContent(final.messages)))
             /\ sent' = ChainInput(inflight.state)
             /\ lastOut' = [kind |-> OutcomeKind(out), err |-> out.err]
             /\ goodTurns' = IF IsGoodTurn("run", out) /\ ~inflight.stale
                               THEN goodTurns + 1 ELSE goodTurns
             /\ allGood' = (allGood /\ (IsGoodTurn("run", out) \/ inflight.stale))
             /\ llm' = HandleAfterTurn(llm, out)
    /\ visited' = GraphPath(graph)
    /\ inflight' = NoInflight
    /\ lastOp' = "turn"
    /\ UNCHANGED <<program, pc, graph, conversation_history,
                   conversation_count, stats, turns, windowIn, resetAt>>
    /\ UNCHANGED <<avail, idx, attempts, selResult, diag>>

ConcurrentNext ==
    \/ ProcessUserInputStart
    \/ ProcessUserInputFinish
    \/ BotClear
    \/ BotStats

SpecConcurrent == ConcurrentInit /\ [][ConcurrentNext]_vars

----------------------------------------------------------------------------
(* Window enforcement on its own *)

\* A history of k messages after an optional system message; roles alternate
\* from a chosen start and the contents follow a chosen pattern.
WindowHistory(hasSystem, k, seed) ==
    (IF hasSystem THEN <<Msg("system", SystemPrompt)>> ELSE <<>>)
    \o [i \in 1..k |->
          Msg(IF (i + seed) % 2 = 0 THEN "user" ELSE "assistant",
              <<"text", ToString((i * (seed + 1)) % 7)>>)]

WindowInit ==
    /\ program = "window"
    /\ pc = "window_in"
    /\ avail = <<>>
    /\ attempts = <<>>
    /\ FieldsInit
    /\ \E hasSystem \in BOOLEAN, k \in 0..MaxOthers, seed \in 0..2 :
         windowIn = WindowHistory(hasSystem, k, seed)

\* The window step of chat_with_gemini applied to the chosen history
ApplyWindow ==
    /\ program = "window"
    /\ pc = "window_in"
    /\ conversation_history' = EnforceWindow(windowIn)
    /\ pc' = "window_out"
    /\ UNCHANGED <<program, graph, ckpt, conversation_count, lastOp, response,
                   sent, lastOut, stats, turns, goodTurns, allGood, windowIn>>
    /\ UNCHANGED selVars
    /\ UNCHANGED <<resetAt, visited, inflight>>

WindowNext == ApplyWindow

SpecWindow == WindowInit /\ [][WindowNext]_vars

----------------------------------------------------------------------------
(* Properties of model selection *)

RECURSIVE SumAttempts(_)
SumAttempts(n) == IF n = 0 THEN 0 ELSE attempts[n] + SumAttempts(n - 1)

TotalAttempts == SumAttempts(NumCandidates(program))

Probed == {i \in Candidates(program) : attempts[i] > 0}

HasOk == \E i \in Candidates(program) : avail[i] = "ok"

FirstOk ==
    CHOOSE i \in Candidates(program) :
        /\ avail[i] = "ok"
        /\ \A j \in 1..(i - 1) : avail[j] # "ok"

\* C1: selection probes the candidates in list order; as soon as a candidate
\* answers its probe with non-empty content selection has succeeded with
\* self.llm bound to that candidate, and no candidate after the first
\* successful one is ever probed; a finished selection over a list with a
\* succeeding candidate has bound the first such candidate.
C1_SelectFirstSuccess ==
    /\ Probed = 1..Cardinality(Probed)
    /\ \A i \in Probed : \A j \in 1..(i - 1) : avail[j] # "ok"
    /\ \A i \in Probed :
          avail[i] = "ok" => selResult = "ok" /\ llm = i /\ attempts[i] = 1
    /\ (selResult \in {"ok", "failed"} /\ HasOk) =>
          /\ selResult = "ok"
          /\ llm = FirstOk
          /\ Probed = 1..FirstOk

\* A selection that committed a candidate after earlier candidates failed and
\* with later candidates left unprobed.
C1_Witness ==
    /\ selResult = "ok"
    /\ llm > 1
    /\ llm < NumCandidates(program)
    /\ attempts[llm + 1] = 0

\* C9: a candidate whose probe fails with PermissionDenied or NotFound is
\* probed exactly once and the loop moves past it; for candidates that start
\* [A: PermissionDenied, B: succeeds] a selection that commits has made
\* exactly 2 probes in total and has committed B.
C9_FatalSkippedOnce ==
    /\ \A i \in Candidates(program) :
          avail[i] \in {"permission_denied", "not_found"} =>
              /\ attempts[i] <= 1
              /\ (attempts[i] = 1 => idx > i)
    /\ (avail[1] = "permission_denied" /\ avail[2] = "ok"
            /\ selResult \in {"ok", "failed"}) =>
          (selResult = "ok" /\ TotalAttempts = 2 /\ llm = 2)

C9_Witness ==
    /\ avail[1] = "permission_denied"
    /\ avail[2] = "ok"
    /\ selResult = "ok"
    /\ attempts[1] = 1
    /\ attempts[2] = 1

----------------------------------------------------------------------------
(* Properties of the turn counter of LangChainGeminiBot *)

TurnCount == GetConversationStats(ckpt).conversation_count

\* C2: after k consecutive successful process_user_input calls on the thread
\* with no reset in between, the conversation_count read back by
\* get_conversation_stats is k.
C2_CountIsNumberOfGoodTurns ==
    (program = "bot" /\ allGood) => TurnCount = goodTurns

\* C3: a process_user_input call, successful or not, never leaves the
\* checkpoint with a lower conversation_count than it had before the call.
C3_CountNeverDecreases ==
    [][(program = "bot" /\ lastOp' = "turn" /\ turns' = turns + 1) =>
         GetConversationStats(ckpt').conversation_count >= TurnCount]_vars

----------------------------------------------------------------------------
(* Properties of window enforcement *)

\* C4: window enforcement with limit 21 leaves a history of at most 21
\* messages as it is; a history of one system message followed by more than
\* 20 other messages becomes 21 messages: the system message, then the 20
\* most recent messages in their original order.
C4_WindowKeepsSystemAndLast20 ==
    (program = "window" /\ pc = "window_out") =>
        /\ Len(windowIn) <= 21 => conversation_history = windowIn
        /\ (Len(windowIn) > 21 /\ windowIn[1].role = "system") =>
              /\ Len(conversation_history) = 21
              /\ conversation_history[1] = windowIn[1]
              /\ \A i \in 1..20 :
                    conversation_history[1 + i] =
                        windowIn[Len(windowIn) - 20 + i]

C4_Witness ==
    /\ program = "window"
    /\ pc = "window_out"
    /\ Len(windowIn) = 31
    /\ windowIn[1].role = "system"
    /\ Len(conversation_history) = 21
    /\ conversation_history[2] = windowIn[12]
    /\ conversation_history[2] # conversation_history[4]

\* C5: once start_chat has seeded the system message, element 0 of
\* conversation_history is that system message in every state of the
\* realtime session.
C5_SystemMessageStaysFirst ==
    (program = "rt" /\ (pc = "loop" \/ lastOp # "none")) =>
        /\ Len(conversation_history) >= 1
        /\ conversation_history[1] = Msg("system", SystemPrompt)

\* A failed turn whose user message pushed the history over the window and
\* was truncated.
C5_Witness ==
    /\ program = "rt"
    /\ lastOp = "turn"
    /\ lastOut.kind = "raise"
    /\ Len(windowIn) > WindowLimit
    /\ Len(conversation_history) = WindowLimit
    /\ conversation_history[1] = Msg("system", SystemPrompt)

----------------------------------------------------------------------------
(* Properties of a turn *)

\* The conversation state of the running program
Conversation == IF program = "bot" THEN ckpt.messages ELSE conversation_history

FixedTexts == {FallbackNode, FallbackNoReply, FallbackInput, NoValidReply}

\* C6: every turn appends exactly one assistant message after the user's
\* message: the backend's reply when the backend call succeeded, a fixed
\* fallback text when it failed (exception or empty content); the turn
\* completes either way.
C6_OneAssistantMessagePerTurn ==
    (program \in {"bot", "rt"} /\ lastOp = "turn") =>
        LET h == Conversation
            n == Len(h)
        IN  /\ response.kind = "return"
            /\ n >= 2
            /\ h[n - 1] = Msg("user", UserText(turns))
            /\ h[n].role = "assistant"
            /\ lastOut.kind = "reply" => h[n].content = ReplyText(turns)
            /\ lastOut.kind # "reply" => h[n].content \in FixedTexts

IsText(t) == \A i \in 1..Len(t) : t[i] \in STRING

\* C7: process_user_input and chat_with_gemini return a string to the loop
\* for every outcome of the backend call and of the graph invocation; no
\* exception reaches their caller.
C7_TurnAlwaysReturnsText ==
    (program \in {"bot", "rt"} /\ lastOp = "turn") =>
        /\ response.kind = "return"
        /\ IsText(response.text)

\* A turn of the graph bot whose graph invocation raised.
C7_Witness ==
    /\ program = "bot"
    /\ lastOp = "turn"
    /\ lastOut.kind = "graph_raise"
    /\ response = Returned(FallbackInput)

\* C8: the text returned for a turn whose backend call raised is one of the
\* fixed texts, the same for every error string, and no part of it is the
\* error string.
C8_FailureTextIsGeneric ==
    (program \in {"bot", "rt"} /\ lastOp = "turn"
        /\ lastOut.kind \in {"raise", "graph_raise"}) =>
        /\ response.text \in FixedTexts
        /\ \A i \in 1..Len(response.text) : response.text[i] # lastOut.err

----------------------------------------------------------------------------
(* Properties of reset and of the first turn *)

Roles(msgs) == [i \in 1..Len(msgs) |-> msgs[i].role]

\* No turn was processed since the last reset
JustReset == resetAt >= 0 /\ resetAt = turns

\* C11: after a reset, with no turn since, the stats of the thread show
\* turnCount 0 and a messageCount of 0 or 1, the one message being the
\* system message, whatever turns preceded the reset.
C11_StatsAfterReset ==
    /\ (program = "bot" /\ JustReset) =>
          /\ GetConversationStats(ckpt).conversation_count = 0
          /\ GetConversationStats(ckpt).message_count = 0
          /\ lastOp \in {"stats", "quit"} => stats = NoStats
    /\ (program = "rt" /\ JustReset) =>
          /\ conversation_count = 0
          /\ conversation_history = <<Msg("system", SystemPrompt)>>

\* The stats command right after a reset that followed two or more turns.
C11_Witness ==
    /\ program = "bot"
    /\ JustReset
    /\ turns >= 2
    /\ lastOp = "stats"
    /\ stats = NoStats

C13_AllFailReportsFailure ==
    /\ [](~HasOk =>
            /\ selResult # "ok"
            /\ selResult = "failed" =>
                  \A i \in Candidates(program) : attempts[i] = 1
            /\ selResult = "pending" =>
                  /\ idx <= NumCandidates(program)
                  /\ \A i \in Candidates(program) :
                        attempts[i] = IF i < idx THEN 1 ELSE 0)
    /\ <>(selResult # "pending")

C13_Witness ==
    /\ ~HasOk
    /\ selResult = "failed"
    /\ pc = "exit"
    /\ TotalAttempts = NumCandidates(program)
    /\ \E i \in Candidates(program) : avail[i] = "empty"

\* C14: no step of the graph bot other than a reset lowers the message_count
\* that get_conversation_stats reports; in particular no process_user_input
\* call does.
C14_MessageCountNeverDecreases ==
    [][(program = "bot" /\ lastOp' # "clear") =>
         GetConversationStats(ckpt').message_count
             >= GetConversationStats(ckpt).message_count]_vars

\* Three turns without a reset, not all of them successful.
C14_Witness ==
    /\ program = "bot"
    /\ resetAt = -1
    /\ turns = 3
    /\ lastOp = "turn"
    /\ lastOut.kind = "raise"
    /\ GetConversationStats(ckpt).message_count = 6

----------------------------------------------------------------------------
(* Properties of the graph and of the handle *)

RECURSIVE ReachSet(_, _, _)
ReachSet(g, S, k) ==
    IF k = 0 THEN S
    ELSE ReachSet(g, S \cup UNION {Successors(g, n) : n \in S}, k - 1)

Acyclic(g) ==
    \A n \in GraphNodes :
        n \notin ReachSet(g, Successors(g, n), Cardinality(GraphNodes))

\* C15: the compiled graph is entered only at START, ends only at END and
\* has no cycle; every invocation that runs goes START, chatbot, END, the
\* node running exactly once.
C15_GraphRunsNodeOnceToEnd ==
    /\ (program = "bot" /\ graph # {}) =>
          /\ \A e \in graph : e[2] # "START" /\ e[1] # "END"
          /\ Successors(graph, "START") = {"chatbot"}
          /\ \A n \in GraphNodes \ {"END"} : Successors(graph, n) # {}
          /\ Acyclic(graph)
          /\ GraphPath(graph) = <<"START", "chatbot", "END">>
    /\ (program = "bot" /\ lastOp = "turn" /\ lastOut.kind # "graph_raise") =>
          visited = <<"START", "chatbot", "END">>

\* A turn whose backend call raised, run on the graph that clear_memory
\* rebuilt.
C15_Witness ==
    /\ program = "bot"
    /\ resetAt >= 1
    /\ turns > resetAt
    /\ lastOp = "turn"
    /\ lastOut.kind = "raise"
    /\ visited = <<"START", "chatbot", "END">>

\* C16: once selection has committed a handle, no turn, stats command or
\* reset changes self.llm; nothing in the session replaces it.
C16_HandleStaysBound ==
    [][selResult = "ok" => (llm' = llm /\ selResult' = "ok")]_vars

\* The second candidate is still bound after a reset and a failed turn.
C16_Witness ==
    /\ selResult = "ok"
    /\ llm = 2
    /\ avail[llm] = "ok"
    /\ resetAt >= 1
    /\ turns > resetAt
    /\ lastOp = "turn"
    /\ lastOut.kind = "raise"

----------------------------------------------------------------------------
(* Properties of empty answers and of the window *)

\* C18: a turn whose backend call returned empty content is handled like a
\* failed one: the text returned is a fixed fallback text, no assistant
\* message with empty content is recorded (the graph bot records the
\* fallback message), and the turn does not raise the turn counter.
C18_EmptyReplyHandledAsFailure ==
    (program \in {"bot", "rt"} /\ lastOp = "turn" /\ lastOut.kind = "empty") =>
        /\ response.text \in FixedTexts
        /\ \A i \in 1..Len(Conversation) :
              Conversation[i].role = "assistant" =>
                  Conversation[i].content # EmptyText
        /\ program = "bot" =>
              /\ ckpt.messages[Len(ckpt.messages)] =
                     Msg("assistant", FallbackNode)
              /\ ckpt.conversation_count <= stats.conversation_count

\* C19: a probe that returns empty content does not commit its candidate:
\* the candidate is probed once, selection does not succeed with it, and the
\* loop goes on to the next candidate, or reports failure after the last.
C19_EmptyProbeDoesNotCommit ==
    \A i \in Candidates(program) :
        (avail[i] = "empty" /\ attempts[i] > 0) =>
            /\ attempts[i] = 1
            /\ idx > i
            /\ ~(selResult = "ok" /\ llm = i)
            /\ (i < NumCandidates(program) /\ selResult \in {"ok", "failed"})
                  => attempts[i + 1] = 1
            /\ i = NumCandidates(program) => selResult = "failed"

C19_Witness ==
    \E i \in Candidates(program) :
        /\ i < NumCandidates(program)
        /\ avail[i] = "empty"
        /\ attempts[i] = 1
        /\ selResult = "ok"
        /\ llm = i + 1

\* C20: in the realtime chat the message list passed to the backend never
\* has more than 21 messages and conversation_history never has more than 22.
C20_HistoryBounded ==
    program = "rt" =>
        /\ Len(sent) <= 21
        /\ Len(conversation_history) <= 22

\* A successful turn on a full window: 21 messages sent, 22 stored.
C20_Witness ==
    /\ program = "rt"
    /\ lastOp = "turn"
    /\ Len(windowIn) = 23
    /\ Len(sent) = 21
    /\ Len(conversation_history) = 22

----------------------------------------------------------------------------
(* Properties of a reset during a turn *)

\* C17: when clear_memory runs while a process_user_input call is in flight,
\* the call still returns its response, and once it has returned the
\* checkpoint of the thread holds nothing of the turns started before the
\* reset: it is the reset state, or the state of the turns started after it.
C17_ResetNotOverwritten ==
    /\ (program = "bot" /\ lastOp = "turn") => response.kind = "return"
    /\ (program = "bot" /\ resetAt >= 0 /\ ~inflight.active) =>
          /\ \A i \in 1..Len(ckpt.messages) : \A k \in 1..resetAt :
                ckpt.messages[i].content \notin {UserText(k), ReplyText(k)}
          /\ Len(ckpt.messages) <= 2 * (turns - resetAt)
          /\ JustReset => GetConversationStats(ckpt) = NoStats

\* The second (or a later) turn returned its reply after a reset that ran
\* while it was in flight, and the checkpoint is the reset one.
C17_Witness ==
    /\ program = "bot"
    /\ ~inflight.active
    /\ lastOp = "turn"
    /\ JustReset
    /\ turns >= 2
    /\ response = Returned(ReplyText(turns))
    /\ ckpt = NoCheckpoint

----------------------------------------------------------------------------
(* Properties of the realtime window's contents *)

\* C21: in a session where every turn succeeded, the messages passed to the
\* backend hold whole rounds: the message after the system message is a
\* user message, and every assistant reply follows the user message it
\* answered.
C21_WindowKeepsWholeRounds ==
    (program = "rt" /\ lastOp = "turn" /\ allGood) =>
        /\ Len(sent) >= 2 => sent[2].role = "user"
        /\ \A i \in 1..Len(sent) :
              sent[i].role = "assistant" =>
                  /\ i > 1
                  /\ sent[i - 1].role = "user"
                  /\ \E k \in 1..turns :
                        /\ sent[i].content = ReplyText(k)
                        /\ sent[i - 1].content = UserText(k)

RECURSIVE CountRole(_, _)
CountRole(msgs, role) ==
    IF msgs = <<>> THEN 0
    ELSE (IF msgs[Len(msgs)].role = role THEN 1 ELSE 0)
         + CountRole(SubSeq(msgs, 1, Len(msgs) - 1), role)

\* C22: a turn of chat_with_gemini whose backend call raises or answers
\* empty leaves the turn's user message at the end of conversation_history
\* and adds no assistant message: before the window step the history is the
\* old one plus that one message, and it is not rolled back.
C22_FailedTurnKeepsUserMessage ==
    [][(program = "rt" /\ turns' = turns + 1
          /\ lastOut'.kind \in {"raise", "empty"}) =>
         /\ windowIn' = Append(conversation_history,
                               Msg("user", UserText(turns')))
         /\ Len(windowIn') = Len(conversation_history) + 1
         /\ Len(windowIn') <= WindowLimit =>
               conversation_history' = windowIn'
         /\ conversation_history'[Len(conversation_history')] =
                Msg("user", UserText(turns'))
         /\ CountRole(conversation_history', "assistant")
                <= CountRole(conversation_history, "assistant")
         /\ conversation_history'[1] = conversation_history[1]]_vars

\* A failed turn has left its user message last, right after the previous
\* turn's assistant reply.
C22_Witness ==
    /\ program = "rt"
    /\ lastOp = "turn"
    /\ lastOut.kind \in {"raise", "empty"}
    /\ turns >= 2
    /\ Len(conversation_history) >= 4
    /\ conversation_history[Len(conversation_history)] =
           Msg("user", UserText(turns))
    /\ conversation_history[Len(conversation_history) - 1] =
           Msg("assistant", ReplyText(turns - 1))

----------------------------------------------------------------------------
(* Properties of the start-up order of start_chat *)

\* A chat call has reached the backend: a turn was counted, a response was
\* produced or a conversation was sent.
ChatCallIssued ==
    \/ turns > 0
    \/ response # NoResponse
    \/ sent # <<>>
    \/ lastOut # NoOutcome

\* C23: start_chat makes its first call to process_user_input /
\* chat_with_gemini only after API-key setup, model selection and (graph
\* bot) graph construction succeeded, in that order, so every turn runs on
\* a committed handle; when one of them fails the session ends without any
\* chat call to the backend.
C23_NoTurnWithoutCommittedHandle ==
    /\ [](program \in {"bot", "rt"} =>
            /\ pc = "setup" =>
                  /\ selResult = "pending"
                  /\ llm = 0
                  /\ \A i \in Candidates(program) : attempts[i] = 0
            /\ pc \in {"setup", "select"} =>
                  graph = {} /\ conversation_history = <<>>
            /\ pc \in {"build", "seed", "loop"} => selResult = "ok"
            /\ ChatCallIssued =>
                  /\ pc \in {"loop", "exit"}
                  /\ selResult = "ok"
                  /\ llm \in Candidates(program)
                  /\ ProbeCommits(avail[llm])
                  /\ program = "bot" => graph = ChatGraph
                  /\ program = "rt" =>
                        /\ conversation_history # <<>>
                        /\ conversation_history[1].role = "system"
            /\ (pc = "exit"
                  /\ (selResult # "ok" \/ (program = "bot" /\ graph = {}))) =>
                  ~ChatCallIssued)
    /\ [][(program \in {"bot", "rt"}) =>
            /\ turns' # turns => pc = "loop"
            /\ pc = "exit" => (pc' = "exit" /\ turns' = turns)
            /\ pc' = "select" => pc \in {"setup", "select"}
            /\ pc' \in {"build", "seed"} => pc \in {"select", pc'}
            /\ pc' = "loop" =>
                  pc \in {"loop", IF program = "bot" THEN "build"
                                                      ELSE "seed"}]_vars

\* The graph bot's first turn, on the second candidate, committed after
\* the first one was unavailable.
C23_Witness ==
    /\ program = "bot"
    /\ pc = "loop"
    /\ turns = 1
    /\ lastOp = "turn"
    /\ selResult = "ok"
    /\ llm = 2
    /\ attempts[1] = 1
    /\ graph = ChatGraph
    /\ resetAt = -1

====
